---------------------------- MODULE Spec2Model ----------------------------
(***************************************************************************)
(* A model of build_network.py: the Web of Science record parser           *)
(* (parse_wos_file), the cited-reference normalizer (normalize_cited_ref), *)
(* the co-citation graph builder (build_cocitation_network), the three     *)
(* pruning stages and the GraphML export of the main script.               *)
(*                                                                         *)
(* Python strings are modelled as sequences of one-character strings, so   *)
(* that strip, startswith, split, upper and the regular expressions of     *)
(* the source are computed character by character.  Three specifications   *)
(* share the definitions:                                                  *)
(*   SpecParse  the line loop of parse_wos_file, one line per step;        *)
(*   SpecNorm   normalize_cited_ref applied to one input string;           *)
(*   Spec       the main script: parse every file, build, prune, save.     *)
(***************************************************************************)
EXTENDS Integers, Sequences, FiniteSets, TLC

\* Python's None.  No string equals it: a string is a tuple of one-character
\* strings, and this is a tuple holding a longer one.
None == << "<None>" >>

\* Python truthiness of a string-or-None value.
Truthy(v) == v # None /\ v # << >>

(***************************************************************************)
(* Characters                                                              *)
(***************************************************************************)
LowerLetters == <<"a","b","c","d","e","f","g","h","i","j","k","l","m","n","o","p","q","r","s","t","u","v","w","x","y","z">>
UpperLetters == <<"A","B","C","D","E","F","G","H","I","J","K","L","M","N","O","P","Q","R","S","T","U","V","W","X","Y","Z">>
DigitChars == <<"0","1","2","3","4","5","6","7","8","9">>
\* The characters the model uses, in code-point order (str comparison in
\* sorted() is by code point).
AsciiOrder == <<" ",",",".","0","1","2","3","4","5","6","7","8","9",":">> \o UpperLetters \o <<"[","]","_">> \o LowerLetters

InSeq(c, s) == \E i \in 1..Len(s) : s[i] = c
IndexOf(c, s) == CHOOSE i \in 1..Len(s) : s[i] = c
Ord(c) == IndexOf(c, AsciiOrder)

IsSpace(c) == c = " "
IsDigit(c) == InSeq(c, DigitChars)
IsUpperChar(c) == InSeq(c, UpperLetters)
IsLowerChar(c) == InSeq(c, LowerLetters)
IsAlnum(c) == IsDigit(c) \/ IsUpperChar(c) \/ IsLowerChar(c)
\* \w of the re module
IsWordChar(c) == IsAlnum(c) \/ c = "_"
UpperChar(c) == IF IsLowerChar(c) THEN UpperLetters[IndexOf(c, LowerLetters)] ELSE c

(***************************************************************************)
(* str methods                                                             *)
(***************************************************************************)
RECURSIVE LStrip(_)
LStrip(s) == IF s # << >> /\ IsSpace(Head(s)) THEN LStrip(Tail(s)) ELSE s

RECURSIVE RStrip(_)
RStrip(s) ==
    IF s # << >> /\ IsSpace(s[Len(s)]) THEN RStrip(SubSeq(s, 1, Len(s) - 1)) ELSE s

\* str.strip()
Strip(s) == RStrip(LStrip(s))

\* str.startswith(p)
StartsWith(s, p) == Len(s) >= Len(p) /\ SubSeq(s, 1, Len(p)) = p

\* str.isalnum(): non-empty and every character alphanumeric
StrIsAlnum(s) == s # << >> /\ \A i \in 1..Len(s) : IsAlnum(s[i])

\* str.isupper(): at least one cased character and no lowercase one
StrIsUpper(s) ==
    /\ \E i \in 1..Len(s) : IsUpperChar(s[i])
    /\ \A i \in 1..Len(s) : ~IsLowerChar(s[i])

\* str.isdigit()
StrIsDigit(s) == s # << >> /\ \A i \in 1..Len(s) : IsDigit(s[i])

\* str.upper()
StrUpper(s) == [i \in 1..Len(s) |-> UpperChar(s[i])]

\* s[i:] with a 0-based Python index
From(s, i) == SubSeq(s, i + 1, Len(s))

\* str(n) for a natural number
RECURSIVE IntToStr(_)
IntToStr(n) ==
    IF n < 10 THEN << DigitChars[n + 1] >>
    ELSE IntToStr(n \div 10) \o << DigitChars[(n % 10) + 1] >>

\* a < b for strings, by code point (the order sorted() uses)
RECURSIVE StrLess(_, _)
StrLess(a, b) ==
    IF b = << >> THEN FALSE
    ELSE IF a = << >> THEN TRUE
    ELSE IF Head(a) = Head(b) THEN StrLess(Tail(a), Tail(b))
    ELSE Ord(Head(a)) < Ord(Head(b))

(***************************************************************************)
(* dict                                                                    *)
(***************************************************************************)
EmptyDict == [k \in {} |-> << >>]
HasKey(d, k) == k \in DOMAIN d
DictSet(d, k, v) == [x \in DOMAIN d \cup {k} |-> IF x = k THEN v ELSE d[x]]

(***************************************************************************)
(* WoS field codes                                                         *)
(***************************************************************************)
FN_FIELD == <<"F","N">>
VR_FIELD == <<"V","R">>
AU_FIELD == <<"A","U">>
AF_FIELD == <<"A","F">>
TI_FIELD == <<"T","I">>
DE_FIELD == <<"D","E">>
ID_FIELD == <<"I","D">>
AB_FIELD == <<"A","B">>
C1_FIELD == <<"C","1">>
CR_FIELD == <<"C","R">>
PY_FIELD == <<"P","Y">>
UT_FIELD == <<"U","T">>
ER_FIELD == <<"E","R">>

\* [CR_FIELD, AU_FIELD, AF_FIELD, C1_FIELD, DE_FIELD, ID_FIELD]
ListFields == {CR_FIELD, AU_FIELD, AF_FIELD, C1_FIELD, DE_FIELD, ID_FIELD}
\* [AB_FIELD, TI_FIELD]
StringFields == {AB_FIELD, TI_FIELD}

(***************************************************************************)
(* parse_wos_file: one iteration of the line loop                          *)
(***************************************************************************)
\* The test of line 60 on the stripped line: a two-character code and a space.
HasFieldCode(line) ==
    /\ Len(line) > 3
    /\ line[3] = " "
    /\ StrIsAlnum(SubSeq(line, 1, 2))
    /\ StrIsUpper(SubSeq(line, 1, 2))

\* The test of line 71: the end-of-record marker.
IsEndOfRecord(original_line) ==
    StartsWith(original_line, ER_FIELD) \/ Strip(original_line) = ER_FIELD

\* The test of line 82: a start-of-file tag.
IsHeader(original_line) ==
    StartsWith(original_line, FN_FIELD) \/ StartsWith(original_line, VR_FIELD)

\* f"MISSING_UT_{len(publications)}"
MissingUT(n) == <<"M","I","S","S","I","N","G","_","U","T","_">> \o IntToStr(n)

\* The state of the loop: the records finalized so far, the record being
\* filled, the field context, and whether an exception has ended the scan.
ParserStart ==
    [publications |-> << >>, current_pub |-> EmptyDict,
     current_field |-> None, failed |-> FALSE]

\* Lines 72-79: the end-of-record marker.
EndRecord(st) ==
    LET pub == IF HasKey(st.current_pub, UT_FIELD) THEN st.current_pub
               ELSE DictSet(st.current_pub, UT_FIELD, MissingUT(Len(st.publications)))
    IN  [st EXCEPT
            !.publications = IF DOMAIN st.current_pub # {} THEN Append(@, pub) ELSE @,
            !.current_pub = EmptyDict,
            !.current_field = None]

\* Lines 94-110: a line that opens a field.
NewField(st, field_code, value) ==
    [st EXCEPT
        !.current_field = field_code,
        !.current_pub =
            IF field_code \in ListFields
            THEN DictSet(@, field_code,
                         Append(IF HasKey(@, field_code) THEN @[field_code] ELSE << >>,
                                value))
            ELSE DictSet(@, field_code, value)]

\* A continuation that makes every line of a list field a new entry.
Continuation_AlwaysNewEntry(st, original_line, value) ==
    LET f == st.current_field
        pub == st.current_pub
    IN  IF f = None THEN st
        ELSE IF f \in ListFields
        THEN IF HasKey(pub, f)
             THEN [st EXCEPT !.current_pub = DictSet(pub, f, Append(pub[f], value))]
             ELSE st
        ELSE IF f \in StringFields
        THEN IF HasKey(pub, f)
             THEN [st EXCEPT !.current_pub = DictSet(pub, f, pub[f] \o <<" ">> \o value)]
             ELSE st
        ELSE st

\* Lines 112-130: a line without a field code, under the field context.
Continuation(st, original_line, value) ==
    LET f == st.current_field
        pub == st.current_pub
    IN  IF f = None THEN st
        ELSE IF f \in ListFields
        THEN IF StartsWith(original_line, <<" "," "," ">>) /\ HasKey(pub, f)
             THEN [st EXCEPT !.current_pub = DictSet(pub, f, Append(pub[f], value))]
             ELSE IF HasKey(pub, f) /\ pub[f] # << >>
             THEN [st EXCEPT !.current_pub =
                      DictSet(pub, f,
                              [pub[f] EXCEPT ![Len(pub[f])] = @ \o <<" ">> \o value])]
             ELSE st
        ELSE IF f \in StringFields
        THEN IF HasKey(pub, f)
             THEN [st EXCEPT !.current_pub = DictSet(pub, f, pub[f] \o <<" ">> \o value)]
             ELSE st
        ELSE st

\* Which branch of the loop body a raw line takes (lines 51-90).  "fault" is
\* the IndexError of line[2] at line 85, on a header tag of two characters.
LineKind(original_line) ==
    LET line == Strip(original_line)
    IN  IF line = << >> THEN "blank"
        ELSE IF IsEndOfRecord(original_line) THEN "end"
        ELSE IF IsHeader(original_line)
        THEN IF Len(line) < 3 THEN "fault"
             ELSE IF line[3] = " " THEN "field" ELSE "skip"
        ELSE IF HasFieldCode(line) THEN "field"
        ELSE "continuation"

\* Lines 50-130: the loop body on one raw line.
ScanLine(st, original_line) ==
    LET line == Strip(original_line)
        kind == LineKind(original_line)
    IN  CASE kind = "blank" -> st
          [] kind = "end" -> EndRecord(st)
          [] kind = "fault" -> [st EXCEPT !.failed = TRUE]
          [] kind = "skip" -> st
          [] kind = "field" -> NewField(st, SubSeq(line, 1, 2), Strip(From(line, 3)))
          [] kind = "continuation" -> Continuation(st, original_line, line)

\* An end of input that keeps whatever record is left.
LastRecord_KeepsAll(st) ==
    IF DOMAIN st.current_pub # {}
    THEN Append(st.publications, st.current_pub)
    ELSE st.publications

\* Lines 134-136: the record left at the end of the input.
LastRecord(st) ==
    IF DOMAIN st.current_pub # {} /\ HasKey(st.current_pub, UT_FIELD)
    THEN Append(st.publications, st.current_pub)
    ELSE st.publications

RECURSIVE ScanFrom(_, _, _)
ScanFrom(st, file_content, i) ==
    IF st.failed \/ i > Len(file_content) THEN st
    ELSE ScanFrom(ScanLine(st, file_content[i]), file_content, i + 1)

\* A parse that returns, after an exception, the records finalized so far.
ParseWosFile_KeepsFinalized(file_content) ==
    LET st == ScanFrom(ParserStart, file_content, 1)
    IN  IF st.failed THEN st.publications ELSE LastRecord(st)

\* parse_wos_file on a decoded file: the records, or [] after an exception.
ParseWosFile(file_content) ==
    LET st == ScanFrom(ParserStart, file_content, 1)
    IN  IF st.failed THEN << >> ELSE LastRecord(st)

(***************************************************************************)
(* normalize_cited_ref                                                     *)
(***************************************************************************)
\* \b of the re module at 0-based position i of s: exactly one of the
\* characters before and after the position is a word character.
WordBoundary(s, i) ==
    LET before == i >= 1 /\ IsWordChar(s[i])
        after == i < Len(s) /\ IsWordChar(s[i + 1])
    IN  before # after

\* Whether r'\b(1[89]\d{2}|20\d{2})\b' matches at 0-based position i.
YearAt(s, i) ==
    /\ i + 4 <= Len(s)
    /\ WordBoundary(s, i)
    /\ \/ s[i + 1] = "1" /\ s[i + 2] \in {"8", "9"}
       \/ s[i + 1] = "2" /\ s[i + 2] = "0"
    /\ IsDigit(s[i + 3])
    /\ IsDigit(s[i + 4])
    /\ WordBoundary(s, i + 4)

\* Lines 160-165: re.search takes the leftmost match.
ExtractYear(s) ==
    LET hits == {i \in 0..Len(s) : YearAt(s, i)}
    IN  IF hits = {} THEN <<"U","N","K","N","O","W","N","_","Y","E","A","R">>
        ELSE LET i == CHOOSE j \in hits : \A k \in hits : j <= k
             IN  SubSeq(s, i + 1, i + 4)

\* str.split(','): the segments between the commas, at least one.
RECURSIVE SplitComma(_)
SplitComma(s) ==
    IF ~InSeq(",", s) THEN << s >>
    ELSE LET i == CHOOSE j \in 1..Len(s) : s[j] = "," /\ \A k \in 1..(j - 1) : s[k] # ","
         IN  << SubSeq(s, 1, i - 1) >> \o SplitComma(SubSeq(s, i + 1, Len(s)))

\* ", ".join(parts[k:]) with a 0-based k
RECURSIVE JoinFrom(_, _)
JoinFrom(parts, k) ==
    IF k >= Len(parts) THEN << >>
    ELSE IF k = Len(parts) - 1 THEN parts[k + 1]
    ELSE parts[k + 1] \o <<","," ">> \o JoinFrom(parts, k + 1)

\* re.sub(r'\.', '', s)
RECURSIVE RemovePeriods(_)
RemovePeriods(s) ==
    IF s = << >> THEN << >>
    ELSE IF Head(s) = "." THEN RemovePeriods(Tail(s))
    ELSE << Head(s) >> \o RemovePeriods(Tail(s))

\* re.sub(r'\s+', ' ', s)
RECURSIVE CollapseSpaces(_)
CollapseSpaces(s) ==
    IF s = << >> THEN << >>
    ELSE IF IsSpace(Head(s))
    THEN <<" ">> \o CollapseSpaces(LStrip(s))
    ELSE << Head(s) >> \o CollapseSpaces(Tail(s))

\* The markers of the regular expression of line 195.
SourceMarkers == {<<"V">>, <<"P">>, <<"D","O","I">>, <<"H","T","T","P">>, <<"W","W","W">>}

\* Whether r',\s+(?:V|P|DOI|HTTP|WWW)\b' matches at 0-based position i.
MarkerAt(s, i) ==
    /\ i < Len(s)
    /\ s[i + 1] = ","
    /\ LET rest == From(s, i + 1)
           word == LStrip(rest)
       IN  /\ Len(word) < Len(rest)
           /\ \E m \in SourceMarkers :
                 /\ StartsWith(word, m)
                 /\ WordBoundary(word, Len(m))

\* re.split(pattern, s, 1)[0]: the text before the leftmost match.
BeforeMarker(s) ==
    LET hits == {i \in 0..Len(s) : MarkerAt(s, i)}
    IN  IF hits = {} THEN s
        ELSE SubSeq(s, 1, CHOOSE j \in hits : \A k \in hits : j <= k)

\* str.strip(', '): commas and spaces off both ends.
RECURSIVE StripCommaSpace(_)
StripCommaSpace(s) ==
    IF s # << >> /\ Head(s) \in {",", " "} THEN StripCommaSpace(Tail(s))
    ELSE IF s # << >> /\ s[Len(s)] \in {",", " "}
    THEN StripCommaSpace(SubSeq(s, 1, Len(s) - 1))
    ELSE s

\* An author cleaned without the strip() of line 177.
NormalizeAuthor_Unstripped(first_part) ==
    LET raw_author == StrUpper(first_part)
    IN  IF StartsWith(raw_author, <<"[","A","N","O","N","Y","M","O","U","S","]">>) THEN <<"A","N","O","N","Y","M","O","U","S">>
        ELSE CollapseSpaces(RemovePeriods(raw_author))

\* Lines 172-178: the author, from the first segment.
NormalizeAuthor(first_part) ==
    LET raw_author == StrUpper(first_part)
    IN  IF StartsWith(raw_author, <<"[","A","N","O","N","Y","M","O","U","S","]">>) THEN <<"A","N","O","N","Y","M","O","U","S">>
        ELSE CollapseSpaces(Strip(RemovePeriods(raw_author)))

\* Lines 186-190: where the source text starts.
PotentialSource(parts, year) ==
    IF Len(parts) > 1
    THEN IF parts[2] = year THEN StrUpper(JoinFrom(parts, 2))
         ELSE StrUpper(JoinFrom(parts, 1))
    ELSE << >>

\* Lines 183-203: the source.
NormalizeSource(parts, year) ==
    LET potential_source_str == PotentialSource(parts, year)
        cleaned_source == StripCommaSpace(Strip(BeforeMarker(potential_source_str)))
    IN  IF potential_source_str = << >> THEN <<"U","N","K","N","O","W","N","_","S","O","U","R","C","E">>
        ELSE IF cleaned_source = year THEN <<"U","N","K","N","O","W","N","_","S","O","U","R","C","E">>
        ELSE IF cleaned_source # << >> THEN CollapseSpaces(cleaned_source)
        ELSE <<"U","N","K","N","O","W","N","_","S","O","U","R","C","E">>

\* normalize_cited_ref(ref_string): "AUTHOR, YEAR, SOURCE" or None.
NormalizeCitedRef(raw) ==
    LET s == Strip(raw)
        year == ExtractYear(s)
        split == SplitComma(s)
        parts == [i \in 1..Len(split) |-> Strip(split[i])]
        author == NormalizeAuthor(parts[1])
        source == NormalizeSource(parts, year)
    IN  IF Truthy(author) /\ Truthy(year)
        THEN author \o <<","," ">> \o year \o <<","," ">> \o source
        ELSE None

(***************************************************************************)
(* build_cocitation_network                                                *)
(***************************************************************************)
\* A Counter / defaultdict(int): the keys in insertion order and their counts.
EmptyCounter == [order |-> << >>, count |-> EmptyDict]

\* c[k] += 1
Increment(c, k) ==
    IF HasKey(c.count, k)
    THEN [c EXCEPT !.count[k] = @ + 1]
    ELSE [order |-> Append(c.order, k), count |-> DictSet(c.count, k, 1)]

\* Lines 233 and 247-251: the accepted normalized references of one
\* publication, in the order of its CR list.
RECURSIVE NormalizeAll(_)
NormalizeAll(cited_refs_raw) ==
    IF cited_refs_raw = << >> THEN << >>
    ELSE LET n == NormalizeCitedRef(Head(cited_refs_raw))
         IN  (IF Truthy(n) THEN << n >> ELSE << >>) \o NormalizeAll(Tail(cited_refs_raw))

NormalizedRefs(pub) ==
    NormalizeAll(IF HasKey(pub, CR_FIELD) THEN pub[CR_FIELD] ELSE << >>)

\* A counter that takes each identity once per publication, whatever the
\* number of entries that yield it.
RECURSIVE CountRefs_OncePerPublication(_, _)
CountRefs_OncePerPublication(cited_ref_counts, normalized_refs) ==
    IF normalized_refs = << >> THEN cited_ref_counts
    ELSE LET rest == Tail(normalized_refs)
         IN  IF \E k \in 1..Len(rest) : rest[k] = Head(normalized_refs)
             THEN CountRefs_OncePerPublication(cited_ref_counts, rest)
             ELSE CountRefs_OncePerPublication(
                      Increment(cited_ref_counts, Head(normalized_refs)), rest)

\* Line 253, for every accepted reference of one publication.
RECURSIVE CountRefs(_, _)
CountRefs(cited_ref_counts, normalized_refs) ==
    IF normalized_refs = << >> THEN cited_ref_counts
    ELSE CountRefs(Increment(cited_ref_counts, Head(normalized_refs)),
                   Tail(normalized_refs))

\* tuple(sorted((ref1, ref2)))
SortedPair(ref1, ref2) ==
    IF StrLess(ref2, ref1) THEN << ref2, ref1 >> ELSE << ref1, ref2 >>

\* A key that keeps the order in which the pair occurs in the list.
EdgeKey_Unsorted(ref1, ref2) == << ref1, ref2 >>

\* The key line 277 gives a pair of references.
EdgeKey(ref1, ref2) == SortedPair(ref1, ref2)

\* itertools.combinations(range(n), 2), 1-based: the index pairs i < j in
\* lexicographic order.
RECURSIVE IndexPairsFrom(_, _, _)
IndexPairsFrom(i, j, n) ==
    IF i >= n THEN << >>
    ELSE IF j > n THEN IndexPairsFrom(i + 1, i + 2, n)
    ELSE << << i, j >> >> \o IndexPairsFrom(i, j + 1, n)

\* Lines 274-279: the co-citation pairs of one publication.
RECURSIVE CountPairs(_, _, _)
CountPairs(cocitation_links, normalized_refs, pairs) ==
    IF pairs = << >> THEN cocitation_links
    ELSE LET p == Head(pairs)
             edge == EdgeKey(normalized_refs[p[1]], normalized_refs[p[2]])
         IN  CountPairs(Increment(cocitation_links, edge), normalized_refs, Tail(pairs))

\* Lines 230-291: the loop over the publications.
RECURSIVE Tally(_, _)
Tally(acc, pubs) ==
    IF pubs = << >> THEN acc
    ELSE LET normalized_refs == NormalizedRefs(Head(pubs))
             n == Len(normalized_refs)
         IN  Tally([cited_ref_counts |-> CountRefs(acc.cited_ref_counts, normalized_refs),
                    cocitation_links |->
                        IF n >= 2
                        THEN CountPairs(acc.cocitation_links, normalized_refs,
                                        IndexPairsFrom(1, 2, n))
                        ELSE acc.cocitation_links],
                   Tail(pubs))

\* str.split(', ')
RECURSIVE SplitCommaSpace(_)
SplitCommaSpace(s) ==
    LET hits == {i \in 1..(Len(s) - 1) : s[i] = "," /\ s[i + 1] = " "}
    IN  IF hits = {} THEN << s >>
        ELSE LET i == CHOOSE j \in hits : \A k \in hits : j <= k
             IN  << SubSeq(s, 1, i - 1) >> \o SplitCommaSpace(SubSeq(s, i + 2, Len(s)))

\* Lines 256-257: the year recorded for a node, or None.
RefYear(norm) ==
    LET parts == SplitCommaSpace(norm)
    IN  IF Len(parts) > 1 /\ StrIsDigit(parts[2]) THEN parts[2] ELSE None

\* A networkx Graph: the nodes in insertion order, their attributes, and
\* the edges, each keyed by the set of its endpoints (one element for a
\* self-loop) and carrying its weight.  float(weight) of a count is the
\* count.
EmptyGraph == [nodes |-> << >>, attr |-> EmptyDict, edges |-> EmptyDict]

\* A graph variable the script has not assigned yet, and the output file
\* while nothing is written.
NoGraph == [unassigned |-> TRUE]
NoFile == [unwritten |-> TRUE]

NodeSet(G) == {G.nodes[i] : i \in 1..Len(G.nodes)}

\* G.add_edge(ref1, ref2, weight=w) under the has_node test of line 319; an
\* edge already present between the two nodes gets the new weight.
RECURSIVE AddEdges(_, _, _)
AddEdges(G, links, keys) ==
    IF keys = << >> THEN G
    ELSE LET k == Head(keys)
             G2 == IF k[1] \in NodeSet(G) /\ k[2] \in NodeSet(G)
                   THEN [G EXCEPT !.edges = DictSet(@, {k[1], k[2]}, links.count[k])]
                   ELSE G
         IN  AddEdges(G2, links, Tail(keys))

\* Lines 303-312: one node per counted reference.
AddNodes(cited_ref_counts) ==
    [nodes |-> cited_ref_counts.order,
     attr |-> [ref \in DOMAIN cited_ref_counts.count |->
                  [label |-> ref, freq |-> cited_ref_counts.count[ref],
                   year |-> RefYear(ref)]],
     edges |-> EmptyDict]

\* build_cocitation_network(publications)
BuildCocitationNetwork(pubs) ==
    LET t == Tally([cited_ref_counts |-> EmptyCounter,
                    cocitation_links |-> EmptyCounter], pubs)
    IN  AddEdges(AddNodes(t.cited_ref_counts), t.cocitation_links,
                 t.cocitation_links.order)

(***************************************************************************)
(* The pruning stages of the main script                                   *)
(***************************************************************************)
\* min_weight of line 465
min_weight == 1

NumberOfNodes(G) == Len(G.nodes)
NumberOfEdges(G) == Cardinality(DOMAIN G.edges)

\* Degree as networkx counts it: a self-loop adds two.
Degree(G, v) ==
    Cardinality({e \in DOMAIN G.edges : v \in e /\ e # {v}})
    + (IF {v} \in DOMAIN G.edges THEN 2 ELSE 0)

\* The subsequence of the nodes that satisfy keep, order kept.
RECURSIVE FilterNodes(_, _)
FilterNodes(nodes, keep) ==
    IF nodes = << >> THEN << >>
    ELSE (IF Head(nodes) \in keep THEN << Head(nodes) >> ELSE << >>)
         \o FilterNodes(Tail(nodes), keep)

\* G.subgraph(keep).copy(): the nodes of keep and the edges among them.
Subgraph(G, keep) ==
    [nodes |-> FilterNodes(G.nodes, keep),
     attr |-> [v \in keep \cap DOMAIN G.attr |-> G.attr[v]],
     edges |-> [e \in {x \in DOMAIN G.edges : x \subseteq keep} |-> G.edges[e]]]

\* Lines 467-469: drop the edges of weight <= min_weight.
RemoveLowWeightEdges(G) ==
    [G EXCEPT !.edges =
        [e \in {x \in DOMAIN G.edges : ~(G.edges[x] <= min_weight)} |-> G.edges[e]]]

\* Line 473: drop the nodes of degree 0.
RemoveIsolates(G) ==
    Subgraph(G, {v \in NodeSet(G) : Degree(G, v) # 0})

\* The nodes reachable from those of seen (the breadth-first search of
\* nx.connected_components).
RECURSIVE Reach(_, _)
Reach(G, seen) ==
    LET next == seen \cup {v \in NodeSet(G) :
                              \E e \in DOMAIN G.edges : v \in e /\ e \cap seen # {}}
    IN  IF next = seen THEN seen ELSE Reach(G, next)

\* list(nx.connected_components(G)): the component of each node not yet
\* seen, in node order.
RECURSIVE ComponentsFrom(_, _, _)
ComponentsFrom(G, nodes, seen) ==
    IF nodes = << >> THEN << >>
    ELSE IF Head(nodes) \in seen THEN ComponentsFrom(G, Tail(nodes), seen)
    ELSE LET c == Reach(G, {Head(nodes)})
         IN  << c >> \o ComponentsFrom(G, Tail(nodes), seen \cup c)

ConnectedComponents(G) == ComponentsFrom(G, G.nodes, {})

\* A choice of the last component of the largest size.
LargestComponent_Last(components) ==
    LET i == CHOOSE j \in 1..Len(components) :
                 /\ \A k \in 1..Len(components) :
                        Cardinality(components[k]) <= Cardinality(components[j])
                 /\ \A k \in (j + 1)..Len(components) :
                        Cardinality(components[k]) < Cardinality(components[j])
    IN  components[i]

\* max(components, key=len): the first component of the largest size.
LargestComponent(components) ==
    LET i == CHOOSE j \in 1..Len(components) :
                 /\ \A k \in 1..Len(components) :
                        Cardinality(components[k]) <= Cardinality(components[j])
                 /\ \A k \in 1..(j - 1) :
                        Cardinality(components[k]) < Cardinality(components[j])
    IN  components[i]

\* Lines 483-486: the subgraph of the largest connected component.
KeepLargest(G) == Subgraph(G, LargestComponent(ConnectedComponents(G)))

(***************************************************************************)
(* save_graph_to_graphml                                                   *)
(***************************************************************************)
\* str(x) of a string or None
PyStr(x) == IF x = None THEN <<"N","o","n","e">> ELSE x

\* Lines 343-350 and 358-363 and the writer: per node the three attributes
\* label, freq and year, per edge the weight.
GraphML(G) ==
    [nodes |-> [i \in 1..Len(G.nodes) |->
                   LET data == G.attr[G.nodes[i]]
                   IN  [id |-> G.nodes[i],
                        label |-> PyStr(data.label),
                        freq |-> data.freq,
                        year |-> PyStr(data.year)]],
     edges |-> G.edges]

(***************************************************************************)
(* State                                                                   *)
(***************************************************************************)
VARIABLES
    \* parse_wos_file
    file_content,      \* the lines of the file the loop has consumed so far
    publications,      \* the records finalized so far
    current_pub,       \* the record being filled: field code -> value
    current_field,     \* the field context of continuation lines, or None
    ppc,               \* "scan", then "returned" or "failed" (the except clause)
    parsed,            \* the value parse_wos_file returns
    \* normalize_cited_ref
    ref_string,        \* the argument
    norm_ref,          \* the value returned: a string or None
    npc,               \* "call", then "done"
    \* the main script
    wos_files_to_process,  \* the files found, each a sequence of lines
    file_idx,          \* how many of them the parse loop has handled
    all_publications,  \* the records of all files parsed so far
    G_full,            \* the graph build_cocitation_network returned
    G_pruned_edges,    \* the copy the pruning stages 1 and 2 work on
    G_pruned,          \* the graph after stage 3
    output_file,       \* what save_graph_to_graphml wrote, or NoFile
    pc                 \* the position in the main script

parserVars == << file_content, publications, current_pub, current_field, ppc, parsed >>
normVars == << ref_string, norm_ref, npc >>
mainVars == << wos_files_to_process, file_idx, all_publications, G_full,
               G_pruned_edges, G_pruned, output_file, pc >>
vars == << parserVars, normVars, mainVars >>

(***************************************************************************)
(* SpecParse: the line loop of parse_wos_file on lines drawn from          *)
(* InputLines, at most MaxLines of them                                    *)
(***************************************************************************)
MaxLines == 4

InputLines ==
    { <<"C","R"," ","A",","," ","1","9","9","9",","," ","Y">>,       \* a list-field line
      <<" "," "," ","B",","," ","2","0","0","1",","," ","X">>,       \* an indented continuation line
      <<" "," "," ","U","S"," ","D",","," ","2","0","0","9">>,       \* indented; the text starts like a field code
      <<"w","r","a","p">>,                \* an unindented continuation line
      <<"U","T"," ","W","1">>,               \* the accession number
      <<"U","T"," ","M","I","S","S","I","N","G","_","U","T","_","1">>,     \* an accession number of the placeholder's form
      <<"E","R">>,                  \* the end-of-record marker
      <<"E","R","G","O","N">>,               \* wrapped text that starts with ER
      <<"V","R","I","J","E"," ","U">>,             \* wrapped text that starts with VR
      <<"F","N">>,                  \* a header tag alone on its line
      <<" "," ">> }                 \* a blank line

ParserIdle ==
    /\ file_content = << >>
    /\ publications = << >>
    /\ current_pub = EmptyDict
    /\ current_field = None
    /\ ppc = "idle"
    /\ parsed = << >>

NormIdle ==
    /\ ref_string = << >>
    /\ norm_ref = None
    /\ npc = "idle"

MainIdle ==
    /\ wos_files_to_process = << >>
    /\ file_idx = 0
    /\ all_publications = << >>
    /\ G_full = NoGraph
    /\ G_pruned_edges = NoGraph
    /\ G_pruned = NoGraph
    /\ output_file = NoFile
    /\ pc = "idle"

\* Lines 27-30: the state parse_wos_file starts the loop in.
ParseInit ==
    /\ file_content = << >>
    /\ publications = ParserStart.publications
    /\ current_pub = ParserStart.current_pub
    /\ current_field = ParserStart.current_field
    /\ ppc = "scan"
    /\ parsed = << >>
    /\ NormIdle
    /\ MainIdle

ParserState ==
    [publications |-> publications, current_pub |-> current_pub,
     current_field |-> current_field, failed |-> FALSE]

\* One iteration of the loop of line 49.
Scan(original_line) ==
    /\ ppc = "scan"
    /\ Len(file_content) < MaxLines
    /\ LET st == ScanLine(ParserState, original_line)
       IN  /\ file_content' = Append(file_content, original_line)
           /\ publications' = st.publications
           /\ current_pub' = st.current_pub
           /\ current_field' = st.current_field
           /\ ppc' = IF st.failed THEN "failed" ELSE "scan"
           \* lines 141-145: the except clause returns []
           /\ parsed' = << >>
    /\ UNCHANGED << normVars, mainVars >>

ReadBlank ==
    \E l \in InputLines :
        /\ LineKind(l) = "blank"
        /\ Scan(l)
ReadEndOfRecord ==
    \E l \in InputLines :
        /\ LineKind(l) = "end"
        /\ Scan(l)
ReadHeaderFault ==
    \E l \in InputLines :
        /\ LineKind(l) = "fault"
        /\ Scan(l)
ReadHeaderSkip ==
    \E l \in InputLines :
        /\ LineKind(l) = "skip"
        /\ Scan(l)
ReadField ==
    \E l \in InputLines :
        /\ LineKind(l) = "field"
        /\ Scan(l)
ReadContinuation ==
    \E l \in InputLines :
        /\ LineKind(l) = "continuation"
        /\ Scan(l)

\* Lines 134-147: the loop has run out of lines.
EndOfInput ==
    /\ ppc = "scan"
    /\ publications' = LastRecord(ParserState)
    /\ parsed' = LastRecord(ParserState)
    /\ ppc' = "returned"
    /\ UNCHANGED << file_content, current_pub, current_field, normVars, mainVars >>

ParseNext ==
    \/ ReadBlank
    \/ ReadEndOfRecord
    \/ ReadHeaderFault
    \/ ReadHeaderSkip
    \/ ReadField
    \/ ReadContinuation
    \/ EndOfInput

SpecParse == ParseInit /\ [][ParseNext]_vars

(***************************************************************************)
(* SpecNorm: normalize_cited_ref on one string drawn from NormInputs       *)
(***************************************************************************)
MaxRefLen == 5

NormAlphabet == {"p", ",", " ", ".", "1", "9"}

\* Every string over NormAlphabet of at most MaxRefLen characters.
ShortStrings == UNION {[1..n -> NormAlphabet] : n \in 0..MaxRefLen}

SmithRef == <<"S","m","i","t","h",","," ","J",".",","," ","2","0","1","0",","," ","J","o","u","r","n","a","l"," ","o","f"," ","X",","," ","V","1","2",","," ","P","3","4">>
AnonymousRef == <<"[","A","n","o","n","y","m","o","u","s","]",","," ","1","9","9","9",","," ","S","o","m","e"," ","R","e","p","o","r","t">>

NormInputs == ShortStrings \cup {SmithRef, AnonymousRef}

NormInit ==
    /\ ref_string \in NormInputs
    /\ norm_ref = None
    /\ npc = "call"
    /\ ParserIdle
    /\ MainIdle

\* Lines 210-211: the call returns the identity string.
NormReturn ==
    /\ npc = "call"
    /\ NormalizeCitedRef(ref_string) # None
    /\ norm_ref' = NormalizeCitedRef(ref_string)
    /\ npc' = "done"
    /\ UNCHANGED << ref_string, parserVars, mainVars >>

\* Lines 212-215: the call returns None.
NormReject ==
    /\ npc = "call"
    /\ NormalizeCitedRef(ref_string) = None
    /\ norm_ref' = None
    /\ npc' = "done"
    /\ UNCHANGED << ref_string, parserVars, mainVars >>

NormNext == NormReturn \/ NormReject

SpecNorm == NormInit /\ [][NormNext]_vars

(***************************************************************************)
(* Spec: the main script on a corpus of files                              *)
(***************************************************************************)
\* The total number of cited-reference entries of a corpus of the
\* systematic family (a file without entries counts one).
MaxCitations == 3

RefB == <<"B",","," ","2","0","0","1",","," ","X">>
RefA == <<"A",","," ","1","9","9","9",","," ","Y">>
RefC == <<"C">>             \* no year, no source
RefBad == <<","," ","2","0","0","1">>      \* no author: rejected
RefD == <<"D",","," ","2","0","0","5",","," ","Z">>

RawRefs == {RefB, RefA, RefC, RefBad}

\* A file holding one record whose CR field lists refs: the field line,
\* one indented line per further entry, the end-of-record marker.
PubFile(refs) ==
    << CR_FIELD \o <<" ">> \o refs[1] >>
    \o [i \in 1..(Len(refs) - 1) |-> <<" "," "," ">> \o refs[i + 1]]
    \o << ER_FIELD >>

EmptyFile == << >>
\* a record without cited references
NoRefsFile == << <<"U","T"," ","W","1">>, ER_FIELD >>
\* a finalized record, then the line the scan fails on
FaultFile == << <<"C","R"," ","A",","," ","1","9","9","9",","," ","Y">>, ER_FIELD, FN_FIELD >>

FilesOfWeight(k) ==
    {PubFile(refs) : refs \in [1..k -> RawRefs]}
    \cup (IF k = 1 THEN {EmptyFile, NoRefsFile, FaultFile} ELSE {})

RECURSIVE CorporaOfWeight(_)
CorporaOfWeight(n) ==
    IF n = 0 THEN {<< >>}
    ELSE UNION {{<< f >> \o c : f \in FilesOfWeight(k), c \in CorporaOfWeight(n - k)} :
                   k \in 1..n}

\* Two records that each cite one work twice and another once: after
\* pruning, two components of two nodes each.
TwoPairCorpora ==
    LET R == {RefA, RefB, RefC, RefD}
    IN  {<< PubFile(<< w, w, x >>), PubFile(<< y, y, z >>) >> :
            <<w, x, y, z>> \in {q \in R \X R \X R \X R : Cardinality({q[1], q[2], q[3], q[4]}) = 4}}

\* A record citing one work three times and a record citing one work twice
\* and another once, in both orders: components of one and of two nodes.
UnequalCorpora ==
    LET R == {RefA, RefB, RefC}
    IN  UNION {{<< PubFile(<< x, x, x >>), PubFile(<< y, y, z >>) >>,
                << PubFile(<< y, y, z >>), PubFile(<< x, x, x >>) >>} :
                  <<x, y, z>> \in {q \in R \X R \X R : Cardinality({q[1], q[2], q[3]}) = 3}}

Corpora ==
    UNION {CorporaOfWeight(n) : n \in 0..MaxCitations}
    \cup TwoPairCorpora \cup UnequalCorpora

Init ==
    /\ wos_files_to_process \in Corpora
    /\ file_idx = 0
    /\ all_publications = << >>
    /\ G_full = NoGraph
    /\ G_pruned_edges = NoGraph
    /\ G_pruned = NoGraph
    /\ output_file = NoFile
    /\ pc = "parse"
    /\ ParserIdle
    /\ NormIdle

\* Lines 442-443: no file to process.
NoFiles ==
    /\ pc = "parse"
    /\ wos_files_to_process = << >>
    /\ pc' = "done"
    /\ UNCHANGED << wos_files_to_process, file_idx, all_publications, G_full,
                    G_pruned_edges, G_pruned, output_file, parserVars, normVars >>

\* Lines 446-450: one file of the parse loop.
ParseFile ==
    /\ pc = "parse"
    /\ file_idx < Len(wos_files_to_process)
    /\ all_publications' =
           all_publications \o ParseWosFile(wos_files_to_process[file_idx + 1])
    /\ file_idx' = file_idx + 1
    /\ pc' = IF file_idx + 1 = Len(wos_files_to_process) THEN "parsed" ELSE "parse"
    /\ UNCHANGED << wos_files_to_process, G_full, G_pruned_edges, G_pruned,
                    output_file, parserVars, normVars >>

\* Lines 452-453: nothing was parsed.
NoPublications ==
    /\ pc = "parsed"
    /\ all_publications = << >>
    /\ pc' = "done"
    /\ UNCHANGED << wos_files_to_process, file_idx, all_publications, G_full,
                    G_pruned_edges, G_pruned, output_file, parserVars, normVars >>

\* Lines 455-458: build the full network.
BuildFull ==
    /\ pc = "parsed"
    /\ all_publications # << >>
    /\ G_full' = BuildCocitationNetwork(all_publications)
    /\ pc' = "built"
    /\ UNCHANGED << wos_files_to_process, file_idx, all_publications,
                    G_pruned_edges, G_pruned, output_file, parserVars, normVars >>

\* Lines 501-502: the full graph has no node or no edge.
SkipPruning ==
    /\ pc = "built"
    /\ ~(NumberOfNodes(G_full) > 0 /\ NumberOfEdges(G_full) > 0)
    /\ pc' = "done"
    /\ UNCHANGED << wos_files_to_process, file_idx, all_publications, G_full,
                    G_pruned_edges, G_pruned, output_file, parserVars, normVars >>

\* Lines 464-470: stage 1, on a copy of the full graph.
PruneEdges ==
    /\ pc = "built"
    /\ NumberOfNodes(G_full) > 0 /\ NumberOfEdges(G_full) > 0
    /\ G_pruned_edges' = RemoveLowWeightEdges(G_full)
    /\ pc' = "stage2"
    /\ UNCHANGED << wos_files_to_process, file_idx, all_publications, G_full,
                    G_pruned, output_file, parserVars, normVars >>

\* Lines 472-474: stage 2.
PruneIsolates ==
    /\ pc = "stage2"
    /\ G_pruned_edges' = RemoveIsolates(G_pruned_edges)
    /\ pc' = "stage3"
    /\ UNCHANGED << wos_files_to_process, file_idx, all_publications, G_full,
                    G_pruned, output_file, parserVars, normVars >>

\* Lines 478-489: stage 3, the largest connected component.
KeepLargestComponent ==
    /\ pc = "stage3"
    /\ NumberOfNodes(G_pruned_edges) > 0
    /\ G_pruned' = KeepLargest(G_pruned_edges)
    /\ pc' = "save"
    /\ UNCHANGED << wos_files_to_process, file_idx, all_publications, G_full,
                    G_pruned_edges, output_file, parserVars, normVars >>

\* Lines 493-495: nothing is left after stages 1 and 2.
PrunedEmpty ==
    /\ pc = "stage3"
    /\ NumberOfNodes(G_pruned_edges) = 0
    /\ G_pruned' = G_pruned_edges
    /\ pc' = "save"
    /\ UNCHANGED << wos_files_to_process, file_idx, all_publications, G_full,
                    G_pruned_edges, output_file, parserVars, normVars >>

\* Lines 330-332: save_graph_to_graphml on a graph without nodes.
SaveSkipped ==
    /\ pc = "save"
    /\ NumberOfNodes(G_pruned) = 0
    /\ pc' = "done"
    /\ UNCHANGED << wos_files_to_process, file_idx, all_publications, G_full,
                    G_pruned_edges, G_pruned, output_file, parserVars, normVars >>

\* A writer without the test of lines 330-332.
SaveGraph_Unguarded ==
    /\ pc = "save"
    /\ output_file' = GraphML(G_pruned)
    /\ pc' = "done"
    /\ UNCHANGED << wos_files_to_process, file_idx, all_publications, G_full,
                    G_pruned_edges, G_pruned, parserVars, normVars >>

\* Lines 334-386: save_graph_to_graphml writes the file.
SaveGraph ==
    /\ pc = "save"
    /\ NumberOfNodes(G_pruned) # 0
    /\ output_file' = GraphML(G_pruned)
    /\ pc' = "done"
    /\ UNCHANGED << wos_files_to_process, file_idx, all_publications, G_full,
                    G_pruned_edges, G_pruned, parserVars, normVars >>

\* Lines 388-409: the writer raises; the error is printed, no file results.
ExportFault ==
    /\ pc = "save"
    /\ NumberOfNodes(G_pruned) # 0
    /\ pc' = "done"
    /\ UNCHANGED << wos_files_to_process, file_idx, all_publications, G_full,
                    G_pruned_edges, G_pruned, output_file, parserVars, normVars >>

Next ==
    \/ NoFiles
    \/ ParseFile
    \/ NoPublications
    \/ BuildFull
    \/ SkipPruning
    \/ PruneEdges
    \/ PruneIsolates
    \/ KeepLargestComponent
    \/ PrunedEmpty
    \/ SaveSkipped
    \/ SaveGraph
    \/ ExportFault

Spec == Init /\ [][Next]_vars

(***************************************************************************)
(* Claims about parse_wos_file, checked under SpecParse                    *)
(***************************************************************************)
LastLine == file_content[Len(file_content)]

\* An unindented line that opens a list field, as the input format writes it.
IsListFieldLine(l) ==
    /\ l # << >>
    /\ ~IsSpace(l[1])
    /\ HasFieldCode(Strip(l))
    /\ SubSeq(l, 1, 2) \in ListFields

\* A non-blank line that begins with three spaces.
IsIndentedLine(l) == StartsWith(l, <<" "," "," ">>) /\ Strip(l) # << >>

\* Position p opens a record with a list-field line, and every line after it
\* up to the last one read is an indented non-blank line.
ListRunFrom(p) ==
    /\ p = 1 \/ Strip(file_content[p - 1]) = ER_FIELD
    /\ IsListFieldLine(file_content[p])
    /\ \A q \in (p + 1)..Len(file_content) : IsIndentedLine(file_content[q])

\* C1: a list-field line followed by N indented non-blank lines gives the
\* record exactly N+1 entries for that field, in input order: the value of
\* the field line, then the trimmed text of each indented line, whatever
\* that text is.
C1_IndentedLinesAreEntries ==
    ppc = "scan" =>
        \A p \in 1..Len(file_content) :
            ListRunFrom(p) =>
                LET code == SubSeq(file_content[p], 1, 2)
                IN  /\ HasKey(current_pub, code)
                    /\ current_pub[code] =
                           [k \in 1..(Len(file_content) - p + 1) |->
                               IF k = 1 THEN Strip(From(Strip(file_content[p]), 3))
                               ELSE Strip(file_content[p + k - 1])]

\* The positions of the end-of-record lines that close a record which has
\* received a field since the previous end-of-record line.
ClosedRecords(lines) ==
    {p \in 1..Len(lines) :
        /\ LineKind(lines[p]) = "end"
        /\ \E q \in 1..(p - 1) :
              /\ LineKind(lines[q]) = "field"
              /\ \A r \in q..(p - 1) : LineKind(lines[r]) # "end"}

\* A string of the form the placeholder identity has.
IsPlaceholder(ut) == \E n \in 0..MaxLines : ut = MissingUT(n)

\* C2: once parse_wos_file has returned, every record closed by an
\* end-of-record line is in the returned sequence exactly once (only the
\* record left at the end of the input can come on top), every returned
\* record has a UT identity, and a placeholder identity is carried by one
\* returned record only.
C2_EndMarkedRecordsReturned ==
    ppc \in {"returned", "failed"} =>
        /\ Len(parsed) >= Cardinality(ClosedRecords(file_content))
        /\ Len(parsed) <= Cardinality(ClosedRecords(file_content)) + 1
        /\ \A i \in 1..Len(parsed) : HasKey(parsed[i], UT_FIELD)
        /\ \A i, j \in 1..Len(parsed) :
              (i # j /\ HasKey(parsed[i], UT_FIELD) /\ HasKey(parsed[j], UT_FIELD)
                     /\ parsed[i][UT_FIELD] = parsed[j][UT_FIELD])
                  => ~IsPlaceholder(parsed[i][UT_FIELD])

\* The step reads a non-blank line that carries no field code and does not
\* begin with three spaces, while the field context is a list field with at
\* least one entry.
UnindentedContinuationStep ==
    /\ ppc = "scan"
    /\ Len(file_content') = Len(file_content) + 1
    /\ current_field \in ListFields
    /\ HasKey(current_pub, current_field)
    /\ Len(current_pub[current_field]) >= 1
    /\ LET l == file_content'[Len(file_content')]
       IN  /\ Strip(l) # << >>
           /\ ~HasFieldCode(Strip(l))
           /\ ~StartsWith(l, <<" "," "," ">>)

\* The step joins the trimmed line, after one space, to the last entry of
\* the active field and changes nothing else.
MergedIntoLastEntry ==
    LET l == file_content'[Len(file_content')]
        old == current_pub[current_field]
    IN  /\ ppc' = "scan"
        /\ current_field' = current_field
        /\ publications' = publications
        /\ current_pub' =
               [current_pub EXCEPT ![current_field] =
                   [old EXCEPT ![Len(old)] = @ \o <<" ">> \o Strip(l)]]
        /\ Len(current_pub'[current_field]) = Len(old)

\* C10 as stated: every such line is merged into the last entry.
C10_UnindentedLineMerged ==
    [][UnindentedContinuationStep => MergedIntoLastEntry]_vars

\* C10, amended: a non-blank line without a field code and without the
\* three-space indentation, which is neither an end-of-record marker (it
\* does not begin with ER and is not ER once trimmed) nor a header line (it
\* does not begin with FN or VR), is merged into the last entry of the
\* active list field: the number of entries is unchanged.
C10_ContinuationLineMerged ==
    [][(/\ UnindentedContinuationStep
        /\ ~IsEndOfRecord(file_content'[Len(file_content')])
        /\ ~IsHeader(file_content'[Len(file_content')]))
       => MergedIntoLastEntry]_vars

\* A state in which the wrapped line has been merged into the CR entry.
C10_Witness ==
    /\ ppc = "scan"
    /\ Len(file_content) >= 2
    /\ LastLine = <<"w","r","a","p">>
    /\ current_field = CR_FIELD
    /\ HasKey(current_pub, CR_FIELD)
    /\ current_pub[CR_FIELD][Len(current_pub[CR_FIELD])] = <<"B",","," ","2","0","0","1",","," ","X"," ","w","r","a","p">>

(***************************************************************************)
(* Claims about normalize_cited_ref, checked under SpecNorm                *)
(***************************************************************************)
\* C3: normalize_cited_ref("Smith, J., 2010, Journal of X, V12, P34")
\* returns "SMITH J, 2010, JOURNAL OF X".
C3_SmithExample ==
    (npc = "done" /\ ref_string = SmithRef)
        => norm_ref = <<"S","M","I","T","H"," ","J",","," ","2","0","1","0",","," ","J","O","U","R","N","A","L"," ","O","F"," ","X">>

(***************************************************************************)
(* Claims about the graph, checked under Spec                              *)
(***************************************************************************)
RECURSIVE SumOver(_, _, _)
\* The sum of f[i] for i in lo..hi
SumOver(f, lo, hi) == IF lo > hi THEN 0 ELSE f[lo] + SumOver(f, lo + 1, hi)

\* The accepted normalized reference list of each parsed publication.
NormalizedLists == [i \in 1..Len(all_publications) |-> NormalizedRefs(all_publications[i])]

\* How many entries of a list equal v.
Occurrences(v, refs) == Cardinality({k \in 1..Len(refs) : refs[k] = v})

\* The canonical identities that occur in some reference list.
CitedIdentities ==
    UNION {{NormalizedLists[i][k] : k \in 1..Len(NormalizedLists[i])} :
              i \in 1..Len(NormalizedLists)}

\* The number of publications whose list holds v.
CitingPublications(v) ==
    Cardinality({i \in 1..Len(NormalizedLists) : Occurrences(v, NormalizedLists[i]) > 0})

\* The number of list entries, over all publications, that equal v.
CitingEntries(v) ==
    SumOver([i \in 1..Len(NormalizedLists) |-> Occurrences(v, NormalizedLists[i])],
            1, Len(NormalizedLists))

\* The co-citation occurrences of a and b: per publication, the occurrences
\* of a times those of b.  The sum reads no position of a list and no
\* position of a publication.
CoCitations(a, b) ==
    SumOver([i \in 1..Len(NormalizedLists) |->
                Occurrences(a, NormalizedLists[i]) * Occurrences(b, NormalizedLists[i])],
            1, Len(NormalizedLists))

\* C4 as stated: the frequency of every node is the number of citing
\* publications whose reference list holds its identity.
C4_FrequencyCountsPublications ==
    G_full # NoGraph =>
        \A v \in NodeSet(G_full) : G_full.attr[v].freq = CitingPublications(v)

\* C4, amended: the nodes are the cited identities, and the frequency of a
\* node is the number of accepted reference-list entries, over all
\* publications, that normalize to its identity: a publication whose list
\* yields the identity k times adds k.  It is the number of citing
\* publications when no list yields the identity twice.
C4_FrequencyCountsEntries ==
    G_full # NoGraph =>
        /\ NodeSet(G_full) = CitedIdentities
        /\ \A v \in NodeSet(G_full) :
              /\ G_full.attr[v].freq = CitingEntries(v)
              /\ (\A i \in 1..Len(NormalizedLists) : Occurrences(v, NormalizedLists[i]) <= 1)
                    => G_full.attr[v].freq = CitingPublications(v)

\* A built graph with a node that one publication cites twice and another
\* publication cites too.
C4_Witness ==
    /\ G_full # NoGraph
    /\ \E v \in NodeSet(G_full) :
          /\ \E i \in 1..Len(NormalizedLists) : Occurrences(v, NormalizedLists[i]) >= 2
          /\ CitingPublications(v) >= 2
          /\ G_full.attr[v].freq >= 3

\* C5: every edge of the built graph joins two distinct identities, both of
\* them nodes of the graph, with a weight of at least 1.
C5_EdgesJoinDistinctNodes ==
    G_full # NoGraph =>
        \A e \in DOMAIN G_full.edges :
            /\ Cardinality(e) = 2
            /\ e \subseteq NodeSet(G_full)
            /\ G_full.edges[e] >= 1

RECURSIVE Joined(_, _, _, _)
Joined(G, u, v, steps) ==
    \/ u = v
    \/ /\ steps > 0
       /\ \E e \in DOMAIN G.edges :
             u \in e /\ \E w \in e : w # u /\ Joined(G, w, v, steps - 1)

\* The nodes joined to v: its connected component.
ComponentOf(G, v) == {u \in NodeSet(G) : Joined(G, v, u, NumberOfNodes(G))}

Connected(G) == \A u, v \in NodeSet(G) : Joined(G, u, v, NumberOfNodes(G))

\* The position of v in the node order of G.
NodeIndex(G, v) == CHOOSE i \in 1..Len(G.nodes) : G.nodes[i] = v

\* What the claim says of each stage's result.
C7_StageResults ==
    /\ pc = "stage2" =>
          \A e \in DOMAIN G_pruned_edges.edges : G_pruned_edges.edges[e] > min_weight
    /\ pc = "stage3" =>
          \A v \in NodeSet(G_pruned_edges) : Degree(G_pruned_edges, v) >= 1
    /\ (pc \in {"save", "done"} /\ G_pruned # NoGraph) =>
          /\ Connected(G_pruned)
          /\ G_pruned = Subgraph(G_pruned_edges, NodeSet(G_pruned))
          /\ NumberOfNodes(G_pruned_edges) > 0 =>
                LET S == NodeSet(G_pruned)
                IN  /\ S # {}
                    /\ \A v \in S : ComponentOf(G_pruned_edges, v) = S
                    /\ \A v \in NodeSet(G_pruned_edges) :
                          LET c == ComponentOf(G_pruned_edges, v)
                          IN  /\ Cardinality(c) <= Cardinality(S)
                              /\ Cardinality(c) = Cardinality(S) =>
                                    \E u \in S : NodeIndex(G_pruned_edges, u)
                                                    <= NodeIndex(G_pruned_edges, v)

\* No stage adds a node or an edge.
C7_StageShrinks ==
    /\ (pc = "built" /\ pc' = "stage2") =>
          /\ NumberOfNodes(G_pruned_edges') <= NumberOfNodes(G_full)
          /\ NumberOfEdges(G_pruned_edges') <= NumberOfEdges(G_full)
    /\ (pc = "stage2" /\ pc' = "stage3") =>
          /\ NumberOfNodes(G_pruned_edges') <= NumberOfNodes(G_pruned_edges)
          /\ NumberOfEdges(G_pruned_edges') <= NumberOfEdges(G_pruned_edges)
    /\ (pc = "stage3" /\ pc' = "save") =>
          /\ NumberOfNodes(G_pruned') <= NumberOfNodes(G_pruned_edges)
          /\ NumberOfEdges(G_pruned') <= NumberOfEdges(G_pruned_edges)

\* C7: over the three pruning stages the node count and the edge count
\* never grow; after stage 1 every edge has a weight above the threshold;
\* after stage 2 every node has degree >= 1; after stage 3 the graph is
\* connected and is the subgraph induced by a connected component of the
\* largest node count, the first such in node order when several tie (when
\* stages 1 and 2 leave no node, it is the empty graph).
C7_PruningStages == []C7_StageResults /\ [][C7_StageShrinks]_vars

\* Stage 3 has chosen between two components of the same, largest size.
C7_Witness ==
    /\ pc = "save"
    /\ NumberOfNodes(G_pruned) >= 2
    /\ \E v \in NodeSet(G_pruned_edges) \ NodeSet(G_pruned) :
          Cardinality(ComponentOf(G_pruned_edges, v)) = NumberOfNodes(G_pruned)

\* C8: the exported year of a node is the empty string whenever its year
\* is unknown, that is, whenever build_cocitation_network recorded no year
\* for its identity.
C8_UnknownYearExportedEmpty ==
    output_file # NoFile =>
        \A i \in 1..Len(output_file.nodes) :
            G_pruned.attr[output_file.nodes[i].id].year = None
                => output_file.nodes[i].year = << >>

\* The statement the script is at can run: the guard of some action of Next
\* holds.
CanStep ==
    \/ pc = "parse" /\ wos_files_to_process = << >>
    \/ pc = "parse" /\ file_idx < Len(wos_files_to_process)
    \/ pc = "parsed" /\ (all_publications = << >> \/ all_publications # << >>)
    \/ pc = "built" /\ G_full # NoGraph
    \/ pc = "stage2" /\ G_pruned_edges # NoGraph
    \/ pc = "stage3" /\ G_pruned_edges # NoGraph
    \/ pc = "save" /\ G_pruned # NoGraph

\* C9: a graph file is written only when the pruned graph has a node; when
\* no publication was parsed, when the full graph has no edge and when
\* pruning leaves no node, the run ends without a file; and the run ends
\* normally: the script stops nowhere but at its end.
C9_WriteOnlyNonEmpty ==
    /\ output_file # NoFile =>
          pc = "done" /\ G_pruned # NoGraph /\ NumberOfNodes(G_pruned) >= 1
    /\ (pc = "done" /\ all_publications = << >>) => output_file = NoFile
    /\ (pc = "done" /\ G_full # NoGraph /\ NumberOfEdges(G_full) = 0) => output_file = NoFile
    /\ (pc = "done" /\ G_pruned # NoGraph /\ NumberOfNodes(G_pruned) = 0) => output_file = NoFile
    /\ pc \in {"parse", "parsed", "built", "stage2", "stage3", "save", "done"}
    /\ pc # "done" => CanStep

\* The run has ended without a file because pruning emptied a graph that
\* had edges.
C9_Witness ==
    /\ pc = "done"
    /\ G_full # NoGraph
    /\ NumberOfEdges(G_full) > 0
    /\ G_pruned # NoGraph
    /\ NumberOfNodes(G_pruned) = 0
    /\ output_file = NoFile

(***************************************************************************)
(* More claims about normalize_cited_ref, checked under SpecNorm           *)
(***************************************************************************)
\* The first comma segment of the input.
FirstSegment(s) ==
    IF InSeq(",", s)
    THEN SubSeq(s, 1, (CHOOSE j \in 1..Len(s) : s[j] = "," /\ \A k \in 1..(j - 1) : s[k] # ",") - 1)
    ELSE s

\* Nothing is left of the author token once periods and white space are
\* taken off: every character of the first segment is one of them.
AuthorTokenEmpty(s) ==
    \A i \in 1..Len(FirstSegment(s)) : FirstSegment(s)[i] = "." \/ IsSpace(FirstSegment(s)[i])

\* The 1-based positions at which a token of exactly four digits beginning
\* with 18, 19 or 20 starts: a run of word characters bounded by the ends
\* of the string or by characters that are not word characters.
YearTokens(s) ==
    {i \in 1..(Len(s) - 3) :
        /\ i = 1 \/ ~IsWordChar(s[i - 1])
        /\ i + 3 = Len(s) \/ ~IsWordChar(s[i + 4])
        /\ \A k \in i..(i + 3) : IsDigit(s[k])
        /\ SubSeq(s, i, i + 1) \in {<<"1","8">>, <<"1","9">>, <<"2","0">>}}

\* The year the claim gives the input.
ClaimedYear(s) ==
    IF YearTokens(s) = {} THEN <<"U","N","K","N","O","W","N","_","Y","E","A","R">>
    ELSE LET i == CHOOSE j \in YearTokens(s) : \A k \in YearTokens(s) : j <= k
         IN  SubSeq(s, i, i + 3)

\* r is author, ", ", year, ", ", source with an author that is not empty
\* and holds no comma, and a source that is not empty.
HasIdentityForm(r, year) ==
    \E k \in 2..Len(r) :
        /\ \A j \in 1..(k - 1) : r[j] # ","
        /\ k + Len(year) + 4 <= Len(r)
        /\ SubSeq(r, k, k + Len(year) + 3) = <<","," ">> \o year \o <<","," ">>

\* C11: normalize_cited_ref returns None exactly when the cleaned author
\* token (the first comma segment without its periods and white space) is
\* empty; otherwise it returns "author, year, source" where the year is
\* the first four-digit token beginning with 18, 19 or 20 of the input, or
\* UNKNOWN_YEAR when there is none, and the source is never empty.
C11_RejectsExactlyEmptyAuthor ==
    npc = "done" =>
        /\ norm_ref = None <=> AuthorTokenEmpty(ref_string)
        /\ norm_ref # None => HasIdentityForm(norm_ref, ClaimedYear(ref_string))

\* A rejected input that holds a year, and whose first segment is only
\* periods and white space.
C11_Witness ==
    /\ npc = "done"
    /\ norm_ref = None
    /\ ref_string # << >>
    /\ YearTokens(ref_string) # {}

(***************************************************************************)
(* Claims about a failed scan, checked under Spec                          *)
(***************************************************************************)
\* The scan of the file raises: some line takes the failing branch (the
\* loop leaves no line unread before it).
ScanFails(lines) == \E i \in 1..Len(lines) : LineKind(lines[i]) = "fault"

\* What the claim lets a file add to the publications of the run.
RecordsKept(lines) == IF ScanFails(lines) THEN << >> ELSE ParseWosFile(lines)

\* The records kept from the first n files, in file order.
RECURSIVE RecordsOfFirst(_, _)
RecordsOfFirst(files, n) ==
    IF n = 0 THEN << >>
    ELSE RecordsOfFirst(files, n - 1) \o RecordsKept(files[n])

\* C12: a file whose scan fails part-way adds no record to the run, not
\* even the records it had finalized before the failure, and the records
\* of every other file are all kept, in file order, and are what the graph
\* is built from.
C12_FailedFileYieldsNothing ==
    /\ all_publications = RecordsOfFirst(wos_files_to_process, file_idx)
    /\ pc \in {"parsed", "built", "stage2", "stage3", "save"}
          => file_idx = Len(wos_files_to_process)
    /\ G_full # NoGraph =>
          G_full = BuildCocitationNetwork(
                       RecordsOfFirst(wos_files_to_process, Len(wos_files_to_process)))

\* The graph has been built from the records of one file while the scan of
\* another file, which had finalized a record, failed.
C12_Witness ==
    /\ pc = "built"
    /\ all_publications # << >>
    /\ \E i \in 1..Len(wos_files_to_process) :
          /\ ScanFails(wos_files_to_process[i])
          /\ ClosedRecords(wos_files_to_process[i]) # {}

(***************************************************************************)
(* More claims about parse_wos_file, checked under SpecParse               *)
(***************************************************************************)
\* The step reads a line that starts with FN or VR and whose third
\* character is not a space (the line may be the two-character code alone).
UnspacedHeaderStep ==
    /\ ppc = "scan"
    /\ Len(file_content') = Len(file_content) + 1
    /\ LET l == file_content'[Len(file_content')]
       IN  /\ StartsWith(l, FN_FIELD) \/ StartsWith(l, VR_FIELD)
           /\ Len(l) < 3 \/ l[3] # " "

\* The step leaves the parser as it was and the loop goes on.
LineSkipped ==
    /\ ppc' = "scan"
    /\ publications' = publications
    /\ current_pub' = current_pub
    /\ current_field' = current_field

\* C13: a line that starts with FN or VR without the field spacing, the
\* bare two-character code included, is skipped: the current record, the
\* field context and the finalized records are unchanged and the parse
\* goes on with the next line.
C13_UnspacedHeaderSkipped == [][UnspacedHeaderStep => LineSkipped]_vars

\* The loop runs out of lines: parse_wos_file returns.
EndOfInputStep == ppc = "scan" /\ ppc' = "returned"

\* The step reads an end-of-record line while the record being filled has
\* a field but no UT.
EndMarkerWithoutUTStep ==
    /\ ppc = "scan"
    /\ Len(file_content') = Len(file_content) + 1
    /\ Strip(file_content'[Len(file_content')]) # << >>
    /\ IsEndOfRecord(file_content'[Len(file_content')])
    /\ current_pub # EmptyDict
    /\ ~HasKey(current_pub, UT_FIELD)

\* What the end of input and the end-of-record marker do with the record
\* being filled.
C14_Step ==
    /\ EndOfInputStep =>
          parsed' = IF current_pub # EmptyDict /\ HasKey(current_pub, UT_FIELD)
                    THEN Append(publications, current_pub)
                    ELSE publications
    /\ EndMarkerWithoutUTStep =>
          /\ ppc' = "scan"
          /\ publications' =
                Append(publications,
                       DictSet(current_pub, UT_FIELD, MissingUT(Len(publications))))

\* C14: at the end of the input the record being filled, when it is not
\* empty, is appended to the result if and only if it has a UT field; a
\* record without UT is dropped and given no placeholder identity, while an
\* end-of-record line after the same record keeps it under the placeholder
\* identity.
C14_TrailingRecordNeedsUT == [][C14_Step]_vars

\* The parse has returned and has dropped a trailing record that has a
\* field but no UT, after it had kept a record closed by its marker.
C14_Witness ==
    /\ ppc = "returned"
    /\ current_pub # EmptyDict
    /\ ~HasKey(current_pub, UT_FIELD)
    /\ parsed # << >>
    /\ \A i \in 1..Len(parsed) : parsed[i] # current_pub

=============================================================================
